---- MODULE Spec2Model ----
(***************************************************************************)
(* Model of korad.py: the KC3405P client (one blocking UDP socket) and the *)
(* power supply it talks to.  Numbers are fixed-point thousandths (5.000   *)
(* is 5000), which is the precision of the wire format ("{x:.3f}").        *)
(* A client operation is the sequence of steps its Python body performs;   *)
(* a raise empties the remaining steps and records the error.              *)
(***************************************************************************)
EXTENDS Integers, Sequences, FiniteSets, TLC

VARIABLES
    dev,          \* the device: setpoints, thresholds, flags, outputs
    rx,           \* datagrams queued in the client's socket, oldest first
    sent,         \* commands sent since the current operation was called
    op,           \* the operation last called: [name, ch, v]
    plan,         \* the steps of op still to run
    ret,          \* the value the last completed query step returned
    result,       \* "idle", "run", "ok" or the error raised
    msg,          \* the values the raised error's message carries
    opsDone,      \* operations called so far
    faults        \* device/transport misbehaviours so far

vars == <<dev, rx, sent, op, plan, ret, result, msg, opsDone, faults>>

----------------------------------------------------------------------------
(* Bounds of the model *)

MaxOps == 1
MaxFaults == 1

(* Values (thousandths) the caller passes and the device may hold. *)
Vals == {0, 5000, 5005, 5010, 5020, 5030}

(* Channel arguments the caller passes: the valid 1..4, the all-channels  *)
(* selector 0 and an out-of-range 5.                                      *)
ChanArgs == 0..5

Chans == 1..4

----------------------------------------------------------------------------
(* Class constants, KC3405P._default_* *)

_default_voltage == 0
_default_current == 0
_default_ocp == 5100
_default_ovp == 31000

(* The channel field of a command that carries no channel digits. *)
NoCh == -1
(* The digits of the combined output command OUT1234. *)
AllCh == 1234

abs_tol == 10

Abs(x) == IF x < 0 THEN -x ELSE x

(* math.isclose on the doubles nearest to two three-decimal values: pairs  *)
(* exactly abs_tol apart for which the IEEE-754 difference does not exceed *)
(* the double 0.01 (5.0/5.01 and 5.01/5.02 do not, 5.02/5.03 does).        *)
CloseAtTol == {{5000, 5010}, {5010, 5020}}

(* A comparison for exact equality, as "voltage == setting" would make. *)
isclose_exact(a, b) == a = b

isclose(a, b) ==
    \/ Abs(a - b) < abs_tol
    \/ Abs(a - b) = abs_tol /\ {a, b} \in CloseAtTol

----------------------------------------------------------------------------
(* Wire commands: mnemonic, channel digits, query or mutation, value. *)

(* A query written without its question mark: a mutation to the device. *)
QueryUnmarked(mn, c) == [mn |-> mn, ch |-> c, q |-> FALSE, val |-> 0]

Query(mn, c) == [mn |-> mn, ch |-> c, q |-> TRUE, val |-> 0]
Mut(mn, c, v) == [mn |-> mn, ch |-> c, q |-> FALSE, val |-> v]

(* Steps of an operation body: kind, command, two arguments. *)
Step(t, cmd, a, b) == [t |-> t, cmd |-> cmd, a |-> a, b |-> b]
NoCmd == Query("", NoCh)

(* A send repeated once. *)
_send_command_twice(cmd) ==
    <<Step("send", cmd, 0, 0), Step("send", cmd, 0, 0)>>

_send_command(cmd) == <<Step("send", cmd, 0, 0)>>

(* _check_channel: "1 > channel > 4" is (1 > channel) and (channel > 4). *)
BadChannel(channel) == 1 > channel /\ channel > 4

_check_channel(channel) == <<Step("chk", NoCmd, channel, 0)>>

(* The range test of the operations that take channel 0 for all channels. *)
BadChannel0(channel) == 0 > channel /\ channel > 4

CheckWithAll(channel) == <<Step("chk0", NoCmd, channel, 0)>>

(* float(self._get_response_str()) *)
RecvFloat == <<Step("rnum", NoCmd, 0, 0)>>
(* bool(int(self._get_response_str())) *)
RecvFlag == <<Step("rflag", NoCmd, 0, 0)>>

(* One send, then eight self._get_response_str() into dhcp, ip, netmask,  *)
(* gateway, mac, port, baudrate, gpib (the a-th local of step a), then    *)
(* the dict.                                                              *)
get_device_info ==
    _send_command(Query("DEVINFO", NoCh))
        \o [i \in 1..8 |-> Step("rstr", NoCmd, i, 0)]
        \o <<Step("info", NoCmd, 0, 0)>>

_get_status_byte ==
    _send_command(Query("STATUS", NoCh)) \o <<Step("rstat", NoCmd, 0, 0)>>

(* get_status sending its query twice and reading one reply. *)
get_status_resent ==
    _send_command(Query("STATUS", NoCh)) \o _get_status_byte
        \o <<Step("decode", NoCmd, 0, 0)>>

get_status == _get_status_byte \o <<Step("decode", NoCmd, 0, 0)>>

get_voltage(channel) ==
    _check_channel(channel) \o _send_command(Query("VOUT", channel))
        \o RecvFloat

get_current(channel) ==
    _check_channel(channel) \o _send_command(Query("IOUT", channel))
        \o RecvFloat

get_voltage_setting(channel) ==
    _check_channel(channel) \o _send_command(Query("VSET", channel))
        \o RecvFloat

get_current_setting(channel) ==
    _check_channel(channel) \o _send_command(Query("ISET", channel))
        \o RecvFloat

(* The last step compares; its command field names what the error       *)
(* message is about.  b = 1: the message holds the intended value (an     *)
(* f-string); b = 0: that part of set_current's message is a plain string.*)
set_voltage(channel, voltage) ==
    _check_channel(channel) \o _send_command(Mut("VSET", channel, voltage))
        \o get_voltage_setting(channel)
        \o <<Step("close", Query("VSET", channel), voltage, 1)>>

set_current(channel, current) ==
    _check_channel(channel) \o _send_command(Mut("ISET", channel, current))
        \o get_current_setting(channel)
        \o <<Step("close", Query("ISET", channel), current, 0)>>

lock_buttons == _send_command(Mut("LOCK", NoCh, 1))

unlock_buttons == _send_command(Mut("LOCK", NoCh, 0))

(* enable_output / disable_output, value = 1 / 0 *)
SetOutput(channel, value) ==
    CheckWithAll(channel) \o
    IF channel = 0
    THEN _send_command(Mut("OUT", AllCh, value)) \o _get_status_byte
            \o <<Step("bits", NoCmd, 0, value)>>
    ELSE _send_command(Mut("OUT", channel, value)) \o _get_status_byte
            \o <<Step("bits", NoCmd, channel, value)>>

enable_output(channel) == SetOutput(channel, 1)

disable_output(channel) == SetOutput(channel, 0)

get_overcurrent_protection_setting(channel) ==
    _check_channel(channel) \o _send_command(Query("OCPSET", channel))
        \o RecvFloat

(* The threshold written, then read back and required to be close. *)
set_overcurrent_protection_checked(channel, current) ==
    _check_channel(channel) \o _send_command(Mut("OCPSET", channel, current))
        \o get_overcurrent_protection_setting(channel)
        \o <<Step("close", Query("OCPSET", channel), current, 1)>>

set_overcurrent_protection(channel, current) ==
    _check_channel(channel) \o _send_command(Mut("OCPSET", channel, current))
        \o get_current_setting(channel)
        \o <<Step("nclose", NoCmd, current, 0)>>

get_overvoltage_protection_setting(channel) ==
    _check_channel(channel) \o _send_command(Query("OVPSET", channel))
        \o RecvFloat

set_overvoltage_protection(channel, voltage) ==
    _check_channel(channel) \o _send_command(Mut("OVPSET", channel, voltage))
        \o get_voltage_setting(channel)
        \o <<Step("nclose", NoCmd, voltage, 0)>>

get_ocp_status(channel) ==
    _check_channel(channel) \o _send_command(Query("OCP", channel))
        \o RecvFlag

(* The flag written and read back, the value read ignored. *)
enable_overcurrent_protection_unverified(channel) ==
    _check_channel(channel) \o _send_command(Mut("OCP", channel, 1))
        \o get_ocp_status(channel)

enable_overcurrent_protection(channel) ==
    _check_channel(channel) \o _send_command(Mut("OCP", channel, 1))
        \o get_ocp_status(channel)
        \o <<Step("flag", Query("OCP", channel), 1, 0)>>

disable_overcurrent_protection(channel) ==
    _check_channel(channel) \o _send_command(Mut("OCP", channel, 0))
        \o get_ocp_status(channel)
        \o <<Step("flag", Query("OCP", channel), 0, 0)>>

get_ovp_status(channel) ==
    _check_channel(channel) \o _send_command(Query("OVP", channel))
        \o RecvFlag

enable_overvoltage_protection(channel) ==
    _check_channel(channel) \o _send_command(Mut("OVP", channel, 1))
        \o get_ovp_status(channel)
        \o <<Step("flag", Query("OVP", channel), 1, 0)>>

disable_overvoltage_protection(channel) ==
    _check_channel(channel) \o _send_command(Mut("OVP", channel, 0))
        \o get_ovp_status(channel)
        \o <<Step("flag", Query("OVP", channel), 0, 0)>>

(* The external operations sending one combined command for channel 0. *)
SetExternalCombined(mn, channel, value) ==
    CheckWithAll(channel) \o
    _send_command(Mut(mn, IF channel = 0 THEN AllCh ELSE channel, value))

(* The six external trigger / switch / compensation operations: for       *)
(* channel 0, "for i in range(1, 5)" sends one command per channel.       *)
SetExternal(mn, channel, value) ==
    CheckWithAll(channel) \o
    IF channel = 0
    THEN [i \in 1..4 |-> Step("send", Mut(mn, i, value), 0, 0)]
    ELSE _send_command(Mut(mn, channel, value))

enable_external_trigger(channel) == SetExternal("EXIT", channel, 1)
disable_external_trigger(channel) == SetExternal("EXIT", channel, 0)
enable_external_switch(channel) == SetExternal("EXON", channel, 1)
disable_external_switch(channel) == SetExternal("EXON", channel, 0)
enable_external_compensation(channel) == SetExternal("COMP", channel, 1)
disable_external_compensation(channel) == SetExternal("COMP", channel, 0)

(* The body of get_settings' loop for one channel; the dict the results   *)
(* are merged into is a local and is not held.                            *)
ChannelSettings(channel) ==
    get_overcurrent_protection_setting(channel)
        \o get_ocp_status(channel)
        \o get_overvoltage_protection_setting(channel)
        \o get_ovp_status(channel)
        \o get_voltage_setting(channel)
        \o get_voltage(channel)
        \o get_current_setting(channel)
        \o get_current(channel)

get_settings ==
    get_device_info \o get_status
        \o ChannelSettings(1) \o ChannelSettings(2) \o ChannelSettings(3)
        \o ChannelSettings(4)

(* The body of reset_settings' loop for one channel. *)
ResetChannel(channel) ==
    set_overcurrent_protection(channel, _default_ocp)
        \o enable_overcurrent_protection(channel)
        \o set_overvoltage_protection(channel, _default_ovp)
        \o enable_overvoltage_protection(channel)
        \o set_voltage(channel, _default_voltage)
        \o set_current(channel, _default_current)

(* reset_settings with the trigger and the switch calls exchanged. *)
reset_settings_reordered ==
    lock_buttons \o disable_output(0) \o disable_external_trigger(0)
        \o disable_external_switch(0) \o disable_external_compensation(0)
        \o ResetChannel(1) \o ResetChannel(2) \o ResetChannel(3)
        \o ResetChannel(4)

reset_settings ==
    lock_buttons \o disable_output(0) \o disable_external_switch(0)
        \o disable_external_trigger(0) \o disable_external_compensation(0)
        \o ResetChannel(1) \o ResetChannel(2) \o ResetChannel(3)
        \o ResetChannel(4)

----------------------------------------------------------------------------
(* Reply texts and their conversion. *)

(* Text replies are held as sequences of one-character strings. *)
MaxLen == 4
Alphabet == {"M", "0", ":", "\n"}
Texts == UNION {[1..n -> Alphabet] : n \in 0..MaxLen}

(* A reply datagram of decodable text, and a decoded str. *)
Info(s) == [k |-> "info", v |-> s, len |-> Len(s)]
Str(s) == [k |-> "str", v |-> s, len |-> Len(s)]

SetMin(S) == CHOOSE x \in S : \A y \in S : x <= y
SetMax(S) == CHOOSE x \in S : \A y \in S : x >= y

(* s.strip('\n'): the newlines at both ends dropped. *)
StripNl(s) ==
    LET keep == {i \in 1..Len(s) : s[i] # "\n"}
    IN  IF keep = {} THEN <<>> ELSE SubSeq(s, SetMin(keep), SetMax(keep))

(* s.split(':'): the segments between the colons, in order. *)
RECURSIVE Split(_)
Split(s) ==
    LET colons == {i \in 1..Len(s) : s[i] = ":"}
    IN  IF colons = {} THEN <<s>>
        ELSE <<SubSeq(s, 1, SetMin(colons) - 1)>>
                \o Split(SubSeq(s, SetMin(colons) + 1, Len(s)))

(* _convert_response: bytes that decode become the str without the        *)
(* newlines at its ends; anything else (undecodable bytes, or a str,      *)
(* which has no decode) comes back as it is. The number, flag and status  *)
(* replies stand for their text with the newline already dropped.         *)
_convert_response(data) ==
    IF data.k = "info" THEN Str(StripNl(data.v)) ELSE data

(* _split_response: data.split(':')[1] of the converted data; without a   *)
(* colon the index fails, on bytes the split fails, and the bare except   *)
(* returns the converted data.                                            *)
_split_response(data) ==
    LET d == _convert_response(data)
    IN  IF d.k = "str" /\ Len(Split(d.v)) >= 2
        THEN Str(Split(d.v)[2])
        ELSE d

----------------------------------------------------------------------------
(* The device and the transport (external to korad.py). *)

(* Reply datagrams: a number "5.000\n", a flag "1\n", the two raw bytes   *)
(* of a status reply, or junk (neither a number nor two bytes long).      *)
Num(v) == [k |-> "num", v |-> v, len |-> 6]
Flag(b) == [k |-> "flag", v |-> b, len |-> 2]
Status(byte) == [k |-> "status", v |-> byte, len |-> 2]
Junk == [k |-> "junk", v |-> 0, len |-> 3]

B(x) == IF x THEN 1 ELSE 0

(* The status byte: bit i-1 the mode of channel i, bit 3+i its output.    *)
StatusByte(d) ==
    B(d.mode[1]) + 2 * B(d.mode[2]) + 4 * B(d.mode[3]) + 8 * B(d.mode[4])
  + 16 * B(d.out[1]) + 32 * B(d.out[2]) + 64 * B(d.out[3])
  + 128 * B(d.out[4])

(* A mutation command applied by the device; commands addressed to a      *)
(* channel the device does not have are ignored.                          *)
DevApply(d, cmd) ==
    LET c == cmd.ch
        on == cmd.val = 1
    IN  IF cmd.mn = "LOCK" THEN [d EXCEPT !.lock = on]
        ELSE IF cmd.mn = "OUT" /\ c = AllCh
            THEN [d EXCEPT !.out = [i \in Chans |-> on]]
        ELSE IF c \notin Chans THEN d
        ELSE IF cmd.mn = "VSET" THEN [d EXCEPT !.vset[c] = cmd.val]
        ELSE IF cmd.mn = "ISET" THEN [d EXCEPT !.iset[c] = cmd.val]
        ELSE IF cmd.mn = "OCPSET" THEN [d EXCEPT !.ocpset[c] = cmd.val]
        ELSE IF cmd.mn = "OVPSET" THEN [d EXCEPT !.ovpset[c] = cmd.val]
        ELSE IF cmd.mn = "OCP" THEN [d EXCEPT !.ocp[c] = on]
        ELSE IF cmd.mn = "OVP" THEN [d EXCEPT !.ovp[c] = on]
        ELSE IF cmd.mn = "OUT" THEN [d EXCEPT !.out[c] = on]
        ELSE IF cmd.mn = "EXIT"
            THEN [d EXCEPT !.exit[c] = on,
                           !.exon[c] = IF on THEN FALSE ELSE @]
        ELSE IF cmd.mn = "EXON"
            THEN [d EXCEPT !.exon[c] = on,
                           !.exit[c] = IF on THEN FALSE ELSE @]
        ELSE IF cmd.mn = "COMP" THEN [d EXCEPT !.comp[c] = on]
        ELSE d

(* The texts of the eight datagrams that answer :SYST:DEVINFO?. *)
DhcpText ==
    <<"D", "H", "C", "P", ":", "1", "\n">>

IpText ==
    <<"I", "P", ":", "1", "0", ".", "0", ".", "0", ".", "2", "\n">>

NetmaskText ==
    <<"N", "E", "T", "M", "A", "S", "K", ":", "2", "5", "5", ".", "0", ".",
       "0", ".", "0", "\n">>

GatewayText ==
    <<"G", "W", ":", "1", "0", ".", "0", ".", "0", ".", "1", "\n">>

MacText ==
    <<"M", "A", "C", ":", "0", "0", ":", "1", "b", ":", "c", "5", "\n">>

PortText ==
    <<"P", "O", "R", "T", ":", "1", "8", "1", "9", "0", "\n">>

BaudText ==
    <<"B", "A", "U", "D", ":", "9", "6", "0", "0", "\n">>

GpibText ==
    <<"G", "P", "I", "B", ":", "1", "2", "\n">>

DevInfoBurst ==
    <<Info(DhcpText), Info(IpText), Info(NetmaskText), Info(GatewayText),
      Info(MacText), Info(PortText), Info(BaudText), Info(GpibText)>>

(* The same burst with the second and the third datagram exchanged. *)
DevInfoBurstSwapped ==
    <<Info(DhcpText), Info(NetmaskText), Info(IpText), Info(GatewayText),
      Info(MacText), Info(PortText), Info(BaudText), Info(GpibText)>>

(* The replies of the device to a query; none to an unknown channel. *)
DevReplies(d, cmd) ==
    LET c == cmd.ch
    IN  IF cmd.mn = "STATUS" THEN <<Status(StatusByte(d))>>
        ELSE IF cmd.mn = "DEVINFO" THEN DevInfoBurst
        ELSE IF c \notin Chans THEN <<>>
        ELSE IF cmd.mn = "VSET" THEN <<Num(d.vset[c])>>
        ELSE IF cmd.mn = "ISET" THEN <<Num(d.iset[c])>>
        ELSE IF cmd.mn = "OCPSET" THEN <<Num(d.ocpset[c])>>
        ELSE IF cmd.mn = "OVPSET" THEN <<Num(d.ovpset[c])>>
        ELSE IF cmd.mn = "VOUT"
            THEN <<Num(IF d.out[c] THEN d.vset[c] ELSE 0)>>
        ELSE IF cmd.mn = "IOUT"
            THEN <<Num(IF d.out[c] /\ ~d.mode[c] THEN d.iset[c] ELSE 0)>>
        ELSE IF cmd.mn = "OCP" THEN <<Flag(B(d.ocp[c]))>>
        ELSE IF cmd.mn = "OVP" THEN <<Flag(B(d.ovp[c]))>>
        ELSE <<>>

(* What may happen to a command: "ok" the device handles it and its      *)
(* replies arrive; "lost" the datagram (or its reply) is lost; "junk" the *)
(* reply (one datagram of it) is garbled; "wrong" the reply to a setpoint *)
(* query carries a value other than the one sent (the device rounds, or   *)
(* has not settled), the reply to a flag query is an integer other than   *)
(* 0 and 1, or the device-info burst comes in another order.              *)
Outcomes(cmd) ==
    {"ok"} \cup
    (IF faults < MaxFaults
     THEN {"lost"}
            \cup (IF cmd.q /\ DevReplies(dev, cmd) # <<>>
                  THEN {"junk"} ELSE {})
            \cup (IF cmd.q /\ cmd.mn \in {"VSET", "ISET", "OCP", "OVP"}
                        /\ cmd.ch \in Chans
                  THEN {"wrong"} ELSE {})
            \cup (IF cmd.mn = "DEVINFO" THEN {"wrong"} ELSE {})
     ELSE {})

(* The replies a "wrong" outcome may deliver. *)
WrongReplies(cmd) ==
    IF cmd.mn \in {"OCP", "OVP"} THEN {<<Flag(2)>>}
    ELSE IF cmd.mn = "DEVINFO" THEN {DevInfoBurstSwapped}
    ELSE {<<Num(w)>> : w \in Vals}

(* The replies with the i-th one garbled. *)
Garbled(replies, i) ==
    [j \in 1..Len(replies) |-> IF j = i THEN Junk ELSE replies[j]]

----------------------------------------------------------------------------
(* The operations a caller may invoke, and their bodies. *)

ValueOps == {"set_voltage", "set_current", "set_overcurrent_protection",
             "set_overvoltage_protection"}

PerChannelOps ==
    {"get_voltage", "get_current", "get_voltage_setting",
     "get_current_setting", "get_overcurrent_protection_setting",
     "get_overvoltage_protection_setting", "get_ocp_status",
     "get_ovp_status", "enable_overcurrent_protection",
     "disable_overcurrent_protection", "enable_overvoltage_protection",
     "disable_overvoltage_protection"}

WithAllOps ==
    {"enable_output", "disable_output", "enable_external_trigger",
     "disable_external_trigger", "enable_external_switch",
     "disable_external_switch", "enable_external_compensation",
     "disable_external_compensation"}

NoArgOps == {"get_device_info", "get_status", "lock_buttons",
             "unlock_buttons", "get_settings", "reset_settings"}

Calls ==
    [name : ValueOps, ch : ChanArgs, v : Vals]
        \cup [name : PerChannelOps \cup WithAllOps, ch : ChanArgs, v : {0}]
        \cup [name : NoArgOps, ch : {NoCh}, v : {0}]

Body(c) ==
    CASE c.name = "get_device_info" -> get_device_info
      [] c.name = "get_status" -> get_status
      [] c.name = "get_voltage" -> get_voltage(c.ch)
      [] c.name = "get_current" -> get_current(c.ch)
      [] c.name = "get_voltage_setting" -> get_voltage_setting(c.ch)
      [] c.name = "get_current_setting" -> get_current_setting(c.ch)
      [] c.name = "set_voltage" -> set_voltage(c.ch, c.v)
      [] c.name = "set_current" -> set_current(c.ch, c.v)
      [] c.name = "lock_buttons" -> lock_buttons
      [] c.name = "unlock_buttons" -> unlock_buttons
      [] c.name = "enable_output" -> enable_output(c.ch)
      [] c.name = "disable_output" -> disable_output(c.ch)
      [] c.name = "get_overcurrent_protection_setting" ->
            get_overcurrent_protection_setting(c.ch)
      [] c.name = "set_overcurrent_protection" ->
            set_overcurrent_protection(c.ch, c.v)
      [] c.name = "get_overvoltage_protection_setting" ->
            get_overvoltage_protection_setting(c.ch)
      [] c.name = "set_overvoltage_protection" ->
            set_overvoltage_protection(c.ch, c.v)
      [] c.name = "get_ocp_status" -> get_ocp_status(c.ch)
      [] c.name = "enable_overcurrent_protection" ->
            enable_overcurrent_protection(c.ch)
      [] c.name = "disable_overcurrent_protection" ->
            disable_overcurrent_protection(c.ch)
      [] c.name = "get_ovp_status" -> get_ovp_status(c.ch)
      [] c.name = "enable_overvoltage_protection" ->
            enable_overvoltage_protection(c.ch)
      [] c.name = "disable_overvoltage_protection" ->
            disable_overvoltage_protection(c.ch)
      [] c.name = "enable_external_trigger" -> enable_external_trigger(c.ch)
      [] c.name = "disable_external_trigger" ->
            disable_external_trigger(c.ch)
      [] c.name = "enable_external_switch" -> enable_external_switch(c.ch)
      [] c.name = "disable_external_switch" -> disable_external_switch(c.ch)
      [] c.name = "enable_external_compensation" ->
            enable_external_compensation(c.ch)
      [] c.name = "disable_external_compensation" ->
            disable_external_compensation(c.ch)
      [] c.name = "get_settings" -> get_settings
      [] c.name = "reset_settings" -> reset_settings

----------------------------------------------------------------------------
(* Decoding of replies and of the status byte. *)

(* f"{byte:08b}": eight binary digits, most significant first. *)
Bin08(n) ==
    [i \in 1..8 |-> IF (n \div (2 ^ (8 - i))) % 2 = 1 THEN "1" ELSE "0"]

(* The digits left as formatted, without [::-1]. *)
NotReversed(s) == s

(* s[::-1] *)
Reversed(s) == [i \in 1..Len(s) |-> s[Len(s) + 1 - i]]

(* s[i] for a Python index i >= 0 into a string held as a sequence. *)
At(s, i) == s[i + 1]

(* The dict get_status builds from the status byte. *)
StatusDict(byte) ==
    LET status == Reversed(Bin08(byte))
    IN  [ch1_mode |-> IF At(status, 0) = "1" THEN "cv" ELSE "cc",
         ch2_mode |-> IF At(status, 1) = "1" THEN "cv" ELSE "cc",
         ch3_mode |-> IF At(status, 2) = "1" THEN "cv" ELSE "cc",
         ch4_mode |-> IF At(status, 3) = "1" THEN "cv" ELSE "cc",
         ch1_output |-> IF At(status, 4) = "1" THEN "on" ELSE "off",
         ch2_output |-> IF At(status, 5) = "1" THEN "on" ELSE "off",
         ch3_output |-> IF At(status, 6) = "1" THEN "on" ELSE "off",
         ch4_output |-> IF At(status, 7) = "1" THEN "on" ELSE "off"]

(* float(text): a number parses, a flag "1" parses to 1.0; nothing else. *)
FloatParses(r) == r.k \in {"num", "flag"}
FloatOf(r) == IF r.k = "flag" THEN 1000 * r.v ELSE r.v

(* int(text): only an integer text parses ("5.000" does not, nor do     *)
(* bytes that are no text); the texts here carry no sign or blanks.       *)
Digits == {"0", "1", "2", "3", "4", "5", "6", "7", "8", "9"}
IntParses(r) ==
    \/ r.k = "flag"
    \/ r.k = "str" /\ r.v # <<>> /\ \A i \in 1..Len(r.v) : r.v[i] \in Digits

DigitVal(c) ==
    CASE c = "0" -> 0 [] c = "1" -> 1 [] c = "2" -> 2 [] c = "3" -> 3
      [] c = "4" -> 4 [] c = "5" -> 5 [] c = "6" -> 6 [] c = "7" -> 7
      [] c = "8" -> 8 [] c = "9" -> 9

RECURSIVE Decimal(_)
Decimal(s) ==
    IF s = <<>> THEN 0
    ELSE 10 * Decimal(SubSeq(s, 1, Len(s) - 1)) + DigitVal(s[Len(s)])

IntOf(r) == IF r.k = "flag" THEN r.v ELSE Decimal(r.v)

(* str(x): a str is itself; of anything else the printed form, held as    *)
(* the value itself.                                                      *)
StrOf(r) == IF r.k = "str" THEN r.v ELSE r

(* The dict with each field taken by the label of the reply: the field   *)
(* of the k-th label from whichever local carries that label.             *)
Labelled(r, label) ==
    IF \E i \in 1..Len(r) : r[i].k = "str" /\ Split(r[i].v)[1] = label
    THEN r[CHOOSE i \in 1..Len(r) :
                r[i].k = "str" /\ Split(r[i].v)[1] = label]
    ELSE Junk

DeviceInfoByLabel(r) ==
    [system_dhcp |-> IntOf(_split_response(r[1])),
     system_ip_address |-> StrOf(_split_response(Labelled(r, <<"I", "P">>))),
     system_netmask |-> StrOf(_split_response(r[3])),
     system_gateway |-> StrOf(_split_response(r[4])),
     system_mac_address |-> StrOf(_split_response(r[5])),
     system_udp_port |-> IntOf(_split_response(r[6])),
     system_baud_rate |-> IntOf(_split_response(r[7])),
     system_gpib_address |-> IntOf(_split_response(r[8]))]

(* The dict of get_device_info from its eight locals r (dhcp, ip,        *)
(* netmask, gateway, mac, port, baudrate, gpib, in that order).           *)
DeviceInfo(r) ==
    [system_dhcp |-> IntOf(_split_response(r[1])),
     system_ip_address |-> StrOf(_split_response(r[2])),
     system_netmask |-> StrOf(_split_response(r[3])),
     system_gateway |-> StrOf(_split_response(r[4])),
     system_mac_address |-> StrOf(_split_response(r[5])),
     system_udp_port |-> IntOf(_split_response(r[6])),
     system_baud_rate |-> IntOf(_split_response(r[7])),
     system_gpib_address |-> IntOf(_split_response(r[8]))]

(* response[0] of a two-byte reply: the status byte, or the digit's code. *)
FirstByte(r) == IF r.k = "flag" THEN 48 + r.v ELSE r.v

----------------------------------------------------------------------------
(* Initial states: the client just constructed, no operation called; the  *)
(* device in one of a few configurations.                                 *)

All(x) == [c \in Chans |-> x]

SetpointPresets ==
    {[vset |-> All(0), iset |-> All(0)],
     [vset |-> All(5000), iset |-> All(5005)],
     [vset |-> [c \in Chans |-> IF c = 2 THEN 31000 ELSE 5000],
      iset |-> [c \in Chans |-> IF c = 3 THEN 5100 ELSE 0]]}

FlagPresets ==
    {[ocp |-> [c \in Chans |-> c = 1], ovp |-> [c \in Chans |-> c # 1],
      out |-> [c \in Chans |-> c # 2], mode |-> [c \in Chans |-> c > 2],
      exit |-> [c \in Chans |-> c = 1], exon |-> [c \in Chans |-> c = 2],
      comp |-> [c \in Chans |-> c = 4], lock |-> FALSE]}

InitDevs ==
    {[vset |-> s.vset, iset |-> s.iset,
      ocpset |-> All(_default_ocp), ovpset |-> All(_default_ovp),
      ocp |-> f.ocp, ovp |-> f.ovp, out |-> f.out, mode |-> f.mode,
      exit |-> f.exit, exon |-> f.exon, comp |-> f.comp, lock |-> f.lock] :
        s \in SetpointPresets, f \in FlagPresets}

NoMsg == <<>>
NoOp == [name |-> "none", ch |-> NoCh, v |-> 0]

(* __init__ creates the socket and sets no timeout on it: a blocking      *)
(* socket (Python's default), whose recv waits until a datagram arrives.  *)
Init ==
    /\ dev \in InitDevs
    /\ rx = <<>>
    /\ sent = <<>>
    /\ op = NoOp
    /\ plan = <<>>
    /\ ret = 0
    /\ result = "idle"
    /\ msg = NoMsg
    /\ opsDone = 0
    /\ faults = 0

----------------------------------------------------------------------------
(* Steps. *)

Running == result = "run" /\ plan # <<>>
Cur == Head(plan)

(* The step returns: the next step, or the operation returns. *)
Advance ==
    /\ plan' = Tail(plan)
    /\ result' = IF Tail(plan) = <<>> THEN "ok" ELSE "run"
    /\ msg' = NoMsg

(* An exception caught and dropped: the body carries on. *)
RaiseSwallowed(e, m) == Advance

(* The step raises: the exception leaves every enclosing body. *)
Raise(e, m) ==
    /\ plan' = <<>>
    /\ result' = e
    /\ msg' = m

(* The caller invokes an operation. *)
Call ==
    /\ result # "run"
    /\ opsDone < MaxOps
    /\ \E c \in Calls :
        /\ op' = c
        /\ plan' = Body(c)
    /\ sent' = <<>>
    /\ ret' = 0
    /\ result' = "run"
    /\ msg' = NoMsg
    /\ opsDone' = opsDone + 1
    /\ UNCHANGED <<dev, rx, faults>>

CheckChannel ==
    /\ Running
    /\ Cur.t = "chk"
    /\ IF BadChannel(Cur.a) THEN Raise("InvalidChannel", NoMsg) ELSE Advance
    /\ UNCHANGED <<dev, rx, sent, op, ret, opsDone, faults>>

CheckChannelOrAll ==
    /\ Running
    /\ Cur.t = "chk0"
    /\ IF BadChannel0(Cur.a) THEN Raise("InvalidChannel", NoMsg) ELSE Advance
    /\ UNCHANGED <<dev, rx, sent, op, ret, opsDone, faults>>

(* sendto, and what the device and the transport make of the datagram. *)
Send ==
    /\ Running
    /\ Cur.t = "send"
    /\ sent' = Append(sent, Cur.cmd)
    /\ \E o \in Outcomes(Cur.cmd) :
        /\ dev' = IF o = "ok" /\ ~Cur.cmd.q THEN DevApply(dev, Cur.cmd)
                  ELSE dev
        /\ faults' = IF o = "ok" THEN faults ELSE faults + 1
        /\ IF o = "ok" /\ Cur.cmd.q THEN rx' = rx \o DevReplies(dev, Cur.cmd)
           ELSE IF o = "junk"
                THEN \E i \in 1..Len(DevReplies(dev, Cur.cmd)) :
                        rx' = rx \o Garbled(DevReplies(dev, Cur.cmd), i)
           ELSE IF o = "wrong"
                THEN \E w \in WrongReplies(Cur.cmd) : rx' = rx \o w
           ELSE rx' = rx
    /\ Advance
    /\ UNCHANGED <<op, ret, opsDone>>

(* recv(128) blocks while the socket is empty (rx # <<>> below). *)
RecvFloatStep ==
    /\ Running
    /\ Cur.t = "rnum"
    /\ rx # <<>>
    /\ rx' = Tail(rx)
    /\ IF FloatParses(Head(rx))
       THEN ret' = FloatOf(Head(rx)) /\ Advance
       ELSE ret' = ret /\ Raise("ParseError", NoMsg)
    /\ UNCHANGED <<dev, sent, op, opsDone, faults>>

RecvFlagStep ==
    /\ Running
    /\ Cur.t = "rflag"
    /\ rx # <<>>
    /\ rx' = Tail(rx)
    /\ IF IntParses(Head(rx))
       THEN ret' = B(Head(rx).v # 0) /\ Advance
       ELSE ret' = ret /\ Raise("ParseError", NoMsg)
    /\ UNCHANGED <<dev, sent, op, opsDone, faults>>

(* A length test that lets every reply through. *)
BadStatusLenNever(response) == FALSE

(* if len(response) != 2 *)
BadStatusLen(response) == response.len # 2

(* _get_status_byte after its send: the reply, its length, response[0]. *)
RecvStatusStep ==
    /\ Running
    /\ Cur.t = "rstat"
    /\ rx # <<>>
    /\ rx' = Tail(rx)
    /\ IF BadStatusLen(Head(rx))
       THEN ret' = ret /\ Raise("MalformedStatus", NoMsg)
       ELSE ret' = FirstByte(Head(rx)) /\ Advance
    /\ UNCHANGED <<dev, sent, op, opsDone, faults>>

(* get_device_info: one self._get_response_str() into the a-th local. *)
RecvStrStep ==
    /\ Running
    /\ Cur.t = "rstr"
    /\ rx # <<>>
    /\ rx' = Tail(rx)
    /\ ret' = Append(IF Cur.a = 1 THEN <<>> ELSE ret,
                     _convert_response(Head(rx)))
    /\ Advance
    /\ UNCHANGED <<dev, sent, op, opsDone, faults>>

(* get_device_info: the dict; the first int() that fails raises. *)
BuildDeviceInfo ==
    /\ Running
    /\ Cur.t = "info"
    /\ IF \E i \in {1, 6, 7, 8} : ~IntParses(_split_response(ret[i]))
       THEN ret' = ret /\ Raise("ParseError", NoMsg)
       ELSE ret' = DeviceInfo(ret) /\ Advance
    /\ UNCHANGED <<dev, rx, sent, op, opsDone, faults>>

(* get_status: the dict built from the status byte. *)
DecodeStatus ==
    /\ Running
    /\ Cur.t = "decode"
    /\ ret' = StatusDict(ret)
    /\ Advance
    /\ UNCHANGED <<dev, rx, sent, op, opsDone, faults>>

(* set_voltage / set_current: if not math.isclose(...): raise *)
VerifyClose ==
    /\ Running
    /\ Cur.t = "close"
    /\ IF ~isclose(Cur.a, ret)
       THEN Raise("VerificationFailed",
                  IF Cur.b = 1
                  THEN [intended |-> Cur.a, observed |-> ret,
                        channel |-> Cur.cmd.ch]
                  ELSE [observed |-> ret, channel |-> Cur.cmd.ch])
       ELSE Advance
    /\ UNCHANGED <<dev, rx, sent, op, ret, opsDone, faults>>

(* set_over*_protection: if math.isclose(...): raise *)
VerifyNotClose ==
    /\ Running
    /\ Cur.t = "nclose"
    /\ IF isclose(Cur.a, ret)
       THEN Raise("VerificationFailed", NoMsg)
       ELSE Advance
    /\ UNCHANGED <<dev, rx, sent, op, ret, opsDone, faults>>

(* enable_/disable_over*_protection: the flag read back against a. *)
VerifyFlag ==
    /\ Running
    /\ Cur.t = "flag"
    /\ IF ret # Cur.a
       THEN Raise("VerificationFailed", [channel |-> Cur.cmd.ch])
       ELSE Advance
    /\ UNCHANGED <<dev, rx, sent, op, ret, opsDone, faults>>

(* The check made on the mode bits: status[:4] and status[channel - 1]. *)
BitsOkModeBits(byte, channel, value) ==
    LET status == Reversed(Bin08(byte))
        want == IF value = 1 THEN "1" ELSE "0"
    IN  IF channel = 0
        THEN \A i \in 0..3 : At(status, i) = want
        ELSE At(status, channel - 1) = want

(* enable_/disable_output: status[4:] or status[3+channel] against b. *)
BitsOk(byte, channel, value) ==
    LET status == Reversed(Bin08(byte))
        want == IF value = 1 THEN "1" ELSE "0"
    IN  IF channel = 0
        THEN \A i \in 4..7 : At(status, i) = want
        ELSE At(status, 3 + channel) = want

VerifyBits ==
    /\ Running
    /\ Cur.t = "bits"
    /\ IF Cur.a # 0 /\ 3 + Cur.a > 7
       THEN Raise("IndexError", NoMsg)
       ELSE IF ~BitsOk(ret, Cur.a, Cur.b)
       THEN Raise("VerificationFailed",
                  IF Cur.a = 0 THEN [observed |-> ret]
                  ELSE [channel |-> Cur.a])
       ELSE Advance
    /\ UNCHANGED <<dev, rx, sent, op, ret, opsDone, faults>>

Next ==
    \/ Call
    \/ CheckChannel
    \/ CheckChannelOrAll
    \/ Send
    \/ RecvFloatStep
    \/ RecvFlagStep
    \/ RecvStatusStep
    \/ RecvStrStep
    \/ BuildDeviceInfo
    \/ DecodeStatus
    \/ VerifyClose
    \/ VerifyNotClose
    \/ VerifyFlag
    \/ VerifyBits

Spec == Init /\ [][Next]_vars

----------------------------------------------------------------------------
(* get_status on every status byte: the state after STATUS? was sent and   *)
(* the device answered with the byte b.                                    *)

Bit(n, i) == (n \div (2 ^ i)) % 2

StatusInit ==
    \E b \in 0..255 :
        /\ dev = [CHOOSE d \in InitDevs : TRUE EXCEPT
                    !.mode = [c \in Chans |-> Bit(b, c - 1) = 1],
                    !.out = [c \in Chans |-> Bit(b, 3 + c) = 1]]
        /\ rx = <<Status(b)>>
        /\ sent = <<Query("STATUS", NoCh)>>
        /\ op = [name |-> "get_status", ch |-> NoCh, v |-> 0]
        /\ plan = Tail(get_status)
        /\ ret = 0
        /\ result = "run"
        /\ msg = NoMsg
        /\ opsDone = 1
        /\ faults = 0

StatusNext == RecvStatusStep \/ DecodeStatus

StatusSpec == StatusInit /\ [][StatusNext]_vars

----------------------------------------------------------------------------
(* _split_response on every short reply: bytes that decode, an already    *)
(* decoded str, and bytes that do not decode.                             *)

SplitStep ==
    /\ Running
    /\ Cur.t = "split"
    /\ rx # <<>>
    /\ rx' = Tail(rx)
    /\ ret' = _split_response(Head(rx))
    /\ Advance
    /\ UNCHANGED <<dev, sent, op, opsDone, faults>>

DecodeInit ==
    /\ dev = CHOOSE d \in InitDevs : TRUE
    /\ \E s \in Texts, k \in {"info", "str", "junk"} :
            rx = <<IF k = "info" THEN Info(s)
                   ELSE IF k = "str" THEN Str(s) ELSE Junk>>
    /\ sent = <<>>
    /\ op = [name |-> "_split_response", ch |-> NoCh, v |-> 0]
    /\ plan = <<Step("split", NoCmd, 0, 0)>>
    /\ ret = 0
    /\ result = "run"
    /\ msg = NoMsg
    /\ opsDone = 1
    /\ faults = 0

DecodeNext == SplitStep

DecodeSpec == DecodeInit /\ [][DecodeNext]_vars

----------------------------------------------------------------------------
(* Sequences of operations: up to MaxSeq calls, one after the other       *)
(* returned, of operations that between them take every kind of step.     *)

MaxSeq == 2

SeqCalls ==
    [name : {"get_device_info", "get_status", "get_settings"},
     ch : {NoCh}, v : {0}]
        \cup [name : {"get_voltage", "get_ocp_status", "enable_output",
                      "enable_overcurrent_protection"},
              ch : {1}, v : {0}]
        \cup [name : {"set_voltage", "set_overcurrent_protection"},
              ch : {1}, v : {5005}]

SeqCall ==
    /\ result # "run"
    /\ opsDone < MaxSeq
    /\ \E c \in SeqCalls :
        /\ op' = c
        /\ plan' = Body(c)
    /\ sent' = <<>>
    /\ ret' = 0
    /\ result' = "run"
    /\ msg' = NoMsg
    /\ opsDone' = opsDone + 1
    /\ UNCHANGED <<dev, rx, faults>>

SeqNext ==
    \/ SeqCall
    \/ CheckChannel
    \/ CheckChannelOrAll
    \/ Send
    \/ RecvFloatStep
    \/ RecvFlagStep
    \/ RecvStatusStep
    \/ RecvStrStep
    \/ BuildDeviceInfo
    \/ DecodeStatus
    \/ VerifyClose
    \/ VerifyNotClose
    \/ VerifyFlag
    \/ VerifyBits

SeqSpec == Init /\ [][SeqNext]_vars

----------------------------------------------------------------------------
(* Properties. *)

Done == result \notin {"idle", "run"}
Failed == result \notin {"idle", "run", "ok"}
Last(s) == s[Len(s)]
IsPrefix(s, t) == Len(s) <= Len(t) /\ \A i \in 1..Len(s) : s[i] = t[i]
Mutations(s) == SelectSeq(s, LAMBDA c : ~c.q)

(* C1: a per-channel operation accepts a channel in 1..4 unchanged (its   *)
(* commands carry that channel) and, given any other channel, fails with  *)
(* an invalid-channel error before any command is sent.                   *)
C1_ChannelValidated ==
    op.name \in ValueOps \cup PerChannelOps =>
        IF op.ch \in Chans
        THEN /\ result # "InvalidChannel"
             /\ \A i \in 1..Len(sent) : sent[i].ch = op.ch
        ELSE /\ sent = <<>>
             /\ result \in {"run", "InvalidChannel"}

(* C2: an operation with the all-channels selector accepts 0..4 and,      *)
(* given any other channel, fails with an invalid-channel error with no   *)
(* command sent.                                                          *)
C2_ChannelOrAllValidated ==
    op.name \in WithAllOps =>
        IF op.ch \in 0..4
        THEN result # "InvalidChannel"
        ELSE /\ sent = <<>>
             /\ result \in {"run", "InvalidChannel"}

SetpointMn == IF op.name = "set_voltage" THEN "VSET" ELSE "ISET"
SetpointWire == <<Mut(SetpointMn, op.ch, op.v), Query(SetpointMn, op.ch)>>

(* C3 as stated: set_voltage / set_current send the mutation, then the    *)
(* setpoint query for the same channel, and succeed if and only if the    *)
(* observed setpoint is at most 0.01 from the intended value; otherwise   *)
(* they fail verification.                                                *)
C3_AtMostTolerance ==
    (op.name \in {"set_voltage", "set_current"}
        /\ result \in {"ok", "VerificationFailed"}) =>
        /\ sent = SetpointWire
        /\ (result = "ok" <=> Abs(op.v - ret) <= abs_tol)

(* C3 amended: the same two commands in that order whenever the           *)
(* operation returns; a numeric reply less than 0.01 from the intended    *)
(* value succeeds, one more than 0.01 away fails verification, and a      *)
(* reply that is no number fails without a retry.                         *)
C3_SetThenVerify ==
    (op.name \in {"set_voltage", "set_current"} /\ Done) =>
        /\ sent = SetpointWire
        /\ result \in {"ok", "VerificationFailed", "ParseError"}
        /\ (result \in {"ok", "VerificationFailed"} /\ Abs(op.v - ret) < abs_tol
                => result = "ok")
        /\ (result \in {"ok", "VerificationFailed"} /\ Abs(op.v - ret) > abs_tol
                => result = "VerificationFailed")

C3_Witness ==
    /\ op = [name |-> "set_voltage", ch |-> 1, v |-> 5000]
    /\ result = "ok"
    /\ ret = 5005

(* The query that reads back what a mutation command changed; the client  *)
(* has no query for the lock and the external flags, so any query counts. *)
Confirms(q, m) ==
    /\ q.q
    /\ IF m.mn = "OUT" THEN q.mn = "STATUS"
       ELSE IF m.mn \in {"LOCK", "EXIT", "EXON", "COMP"} THEN TRUE
       ELSE q.mn = m.mn /\ q.ch = m.ch

(* C4: an operation that returned success has sent, after each of its     *)
(* mutation commands, a confirmation query for the attribute changed.     *)
C4_EveryMutationConfirmed ==
    result = "ok" =>
        \A i \in 1..Len(sent) :
            ~sent[i].q =>
                \E j \in (i + 1)..Len(sent) : Confirms(sent[j], sent[i])

OutputValue == IF op.name = "enable_output" THEN 1 ELSE 0

(* C5: enable_output / disable_output with channel 0 send OUT1234 and one *)
(* status query and succeed iff status bits 4..7 all equal the requested  *)
(* state; with channel c in 1..4 they send OUT<c> and one status query    *)
(* and succeed iff bit 3+c equals it, whatever the other bits; otherwise  *)
(* they fail verification.                                                *)
C5_OutputVerified ==
    (op.name \in {"enable_output", "disable_output"} /\ op.ch \in 0..4
        /\ Done) =>
        /\ sent = <<Mut("OUT", IF op.ch = 0 THEN AllCh ELSE op.ch,
                        OutputValue),
                    Query("STATUS", NoCh)>>
        /\ result \in {"ok", "VerificationFailed", "MalformedStatus"}
        /\ result \in {"ok", "VerificationFailed"} =>
            (result = "ok" <=>
                IF op.ch = 0
                THEN \A i \in 4..7 : Bit(ret, i) = OutputValue
                ELSE Bit(ret, 3 + op.ch) = OutputValue)

(* disable_output(2) succeeds while other output bits are on. *)
C5_Witness ==
    /\ op.name = "disable_output"
    /\ op.ch = 2
    /\ result = "ok"
    /\ Bit(ret, 4) = 1
    /\ Bit(ret, 6) = 1

(* C6: against a device that applies every mutation and answers every    *)
(* query truthfully, reset_settings succeeds from every device state and  *)
(* leaves outputs off, OCP and OVP enabled and all setpoints at 0.0.      *)
C6_ResetAlwaysSucceeds ==
    (op.name = "reset_settings" /\ faults = 0) =>
        /\ result \in {"run", "ok"}
        /\ result = "ok" =>
            \A c \in Chans :
                /\ ~dev.out[c]
                /\ dev.ocp[c]
                /\ dev.ovp[c]
                /\ dev.vset[c] = 0
                /\ dev.iset[c] = 0

(* The order of mutation commands the reset is to issue. *)
ResetOrder ==
    <<Mut("LOCK", NoCh, 1), Mut("OUT", AllCh, 0)>>
        \o [i \in 1..4 |-> Mut("EXON", i, 0)]
        \o [i \in 1..4 |-> Mut("EXIT", i, 0)]
        \o [i \in 1..4 |-> Mut("COMP", i, 0)]
        \o [i \in 1..24 |->
              LET c == ((i - 1) \div 6) + 1
                  k == ((i - 1) % 6) + 1
              IN  IF k = 1 THEN Mut("OCPSET", c, 5100)
                  ELSE IF k = 2 THEN Mut("OCP", c, 1)
                  ELSE IF k = 3 THEN Mut("OVPSET", c, 31000)
                  ELSE IF k = 4 THEN Mut("OVP", c, 1)
                  ELSE IF k = 5 THEN Mut("VSET", c, 0)
                  ELSE Mut("ISET", c, 0)]

(* C7: the mutation commands of reset_settings are issued in the fixed    *)
(* order lock, outputs off, external switch 1..4, external trigger 1..4,  *)
(* external compensation 1..4, then per channel OCP threshold, OCP        *)
(* enable, OVP threshold, OVP enable, voltage 0.0, current 0.0; all of    *)
(* them when no step fails.                                               *)
C7_ResetOrder ==
    op.name = "reset_settings" =>
        /\ IsPrefix(Mutations(sent), ResetOrder)
        /\ result = "ok" => Mutations(sent) = ResetOrder

C7_Witness == op.name = "reset_settings" /\ result = "ok"

(* The step about to run finds its reply or read-back value bad. *)
StepFails ==
    /\ Running
    /\ \/ Cur.t = "flag" /\ ret # Cur.a
       \/ Cur.t = "close" /\ Abs(Cur.a - ret) > abs_tol
       \/ Cur.t = "nclose" /\ Abs(Cur.a - ret) < abs_tol
       \/ Cur.t = "bits" /\ Cur.a = 0 /\ \E i \in 4..7 : Bit(ret, i) # Cur.b
       \/ Cur.t = "rnum" /\ rx # <<>> /\ Head(rx).k = "junk"
       \/ Cur.t = "rflag" /\ rx # <<>> /\ Head(rx).k = "junk"
       \/ Cur.t = "rstat" /\ rx # <<>> /\ Head(rx).len # 2

(* C8: a failing step of reset_settings returns the failure to the        *)
(* caller, and the failed reset sends nothing more (no later step, no     *)
(* rollback): when OCP enable on channel 2 is not confirmed, no setpoint  *)
(* or protection command addresses channel 3 or 4.                        *)
C8_ResetAborts ==
    /\ [](op.name = "reset_settings" /\ Failed
            /\ Last(sent) = Query("OCP", 2) =>
                \A i \in 1..Len(sent) :
                    sent[i].ch \in {3, 4} =>
                        sent[i].mn \in {"EXON", "EXIT", "COMP"})
    /\ [][op.name = "reset_settings" =>
            /\ StepFails => result' \notin {"run", "ok"} /\ sent' = sent
            /\ Failed => sent' = sent \/ opsDone' = opsDone + 1]_vars

C8_Witness ==
    /\ op.name = "reset_settings"
    /\ result = "VerificationFailed"
    /\ Last(sent) = Query("OCP", 2)

(* C9: an operation that waits for a reply never blocks for good: while   *)
(* it runs, it can take a step (return a value or raise).                 *)
C9_NeverBlocks == result = "run" => ENABLED Next

(* C10: get_status maps bit i (0..3) of the status byte to the mode of    *)
(* channel i+1 (1 cv, 0 cc) and bit 4+i to its output (1 on, 0 off).      *)
C10_StatusDecoded ==
    [][Running /\ Cur.t = "decode" =>
        /\ ret'.ch1_mode = (IF Bit(ret, 0) = 1 THEN "cv" ELSE "cc")
        /\ ret'.ch2_mode = (IF Bit(ret, 1) = 1 THEN "cv" ELSE "cc")
        /\ ret'.ch3_mode = (IF Bit(ret, 2) = 1 THEN "cv" ELSE "cc")
        /\ ret'.ch4_mode = (IF Bit(ret, 3) = 1 THEN "cv" ELSE "cc")
        /\ ret'.ch1_output = (IF Bit(ret, 4) = 1 THEN "on" ELSE "off")
        /\ ret'.ch2_output = (IF Bit(ret, 5) = 1 THEN "on" ELSE "off")
        /\ ret'.ch3_output = (IF Bit(ret, 6) = 1 THEN "on" ELSE "off")
        /\ ret'.ch4_output = (IF Bit(ret, 7) = 1 THEN "on" ELSE "off")]_vars

(* The byte 0b00010001: channel 1 cv and on, channels 2..4 cc and off. *)
C10_Witness ==
    /\ op.name = "get_status"
    /\ result = "ok"
    /\ dev.mode = [c \in Chans |-> c = 1]
    /\ dev.out = [c \in Chans |-> c = 1]
    /\ ret = [ch1_mode |-> "cv", ch2_mode |-> "cc", ch3_mode |-> "cc",
              ch4_mode |-> "cc", ch1_output |-> "on", ch2_output |-> "off",
              ch3_output |-> "off", ch4_output |-> "off"]

(* C11: a status reply that is not exactly 2 bytes long makes the status  *)
(* query fail with a malformed-status error without yielding a status     *)
(* byte, and the operation that asked (get_status, enable_output,         *)
(* disable_output, or get_settings and reset_settings through these)      *)
(* ends there, failed, never successful.                                  *)
C11_MalformedStatus ==
    /\ [](result = "MalformedStatus" =>
            /\ plan = <<>>
            /\ op.name \in {"get_status", "enable_output", "disable_output",
                            "get_settings", "reset_settings"}
            /\ Last(sent) = Query("STATUS", NoCh))
    /\ [][Running /\ Cur.t = "rstat" /\ rx # <<>> /\ Head(rx).len # 2 =>
            /\ result' = "MalformedStatus"
            /\ ret' = ret
            /\ sent' = sent]_vars

(* enable_output(1) whose status reply came back three bytes long. *)
C11_Witness ==
    /\ op = [name |-> "enable_output", ch |-> 1, v |-> 0]
    /\ result = "MalformedStatus"
    /\ sent = <<Mut("OUT", 1, 1), Query("STATUS", NoCh)>>
    /\ dev.out[1]

ExternalOps ==
    {"enable_external_trigger", "disable_external_trigger",
     "enable_external_switch", "disable_external_switch",
     "enable_external_compensation", "disable_external_compensation"}

ExternalMn ==
    IF op.name \in {"enable_external_trigger", "disable_external_trigger"}
    THEN "EXIT"
    ELSE IF op.name \in {"enable_external_switch", "disable_external_switch"}
    THEN "EXON"
    ELSE "COMP"

ExternalValue ==
    IF op.name \in {"enable_external_trigger", "enable_external_switch",
                    "enable_external_compensation"}
    THEN 1 ELSE 0

ExternalWire ==
    IF op.ch = 0
    THEN [i \in 1..4 |-> Mut(ExternalMn, i, ExternalValue)]
    ELSE <<Mut(ExternalMn, op.ch, ExternalValue)>>

(* C12: the external trigger, switch and compensation operations send,    *)
(* for channel 0, exactly four per-channel commands addressed to channels *)
(* 1, 2, 3, 4 in ascending order, and for channel c in 1..4 exactly one   *)
(* command addressed to c; none sends a combined all-channel command, and *)
(* none reads anything back.                                              *)
C12_ExternalPerChannel ==
    (op.name \in ExternalOps /\ op.ch \in 0..4) =>
        /\ IsPrefix(sent, ExternalWire)
        /\ \A i \in 1..Len(sent) : sent[i].ch # AllCh
        /\ Done => result = "ok" /\ sent = ExternalWire

(* enable_external_trigger(0) returned: four commands, and the device     *)
(* has the trigger on and the switch off on every channel.                *)
C12_Witness ==
    /\ op = [name |-> "enable_external_trigger", ch |-> 0, v |-> 0]
    /\ result = "ok"
    /\ Len(sent) = 4
    /\ \A c \in Chans : dev.exit[c] /\ ~dev.exon[c]

HasColon(s) == \E i \in 1..Len(s) : s[i] = ":"
AfterFirstColon(s) ==
    SubSeq(s, SetMin({i \in 1..Len(s) : s[i] = ":"}) + 1, Len(s))

(* C13: decoding a labeled reply returns everything after the first colon *)
(* of the decoded text, later colons included, and the decoded text       *)
(* unchanged when it has no colon; it never raises.                       *)
C13_AfterFirstColon ==
    [][Running /\ Cur.t = "split" /\ Head(rx).k \in {"info", "str"} =>
        LET text == _convert_response(Head(rx)).v
        IN  /\ result' = "ok"
            /\ ret' = Str(IF HasColon(text) THEN AfterFirstColon(text)
                          ELSE text)]_vars

(* C14: when set_voltage or set_current fails verification, the failure   *)
(* reported to the caller carries the intended value, the observed value  *)
(* and the channel.                                                       *)
C14_FailureCarriesValues ==
    (op.name \in {"set_voltage", "set_current"}
        /\ result = "VerificationFailed") =>
        /\ DOMAIN msg = {"intended", "observed", "channel"}
        /\ msg.intended = op.v
        /\ msg.observed = ret
        /\ msg.channel = op.ch

(* One invocation on one channel: every operation taking a channel,       *)
(* except the all-channels selector 0.                                    *)
SingleChannel ==
    \/ op.name \in ValueOps \cup PerChannelOps
    \/ op.name \in WithAllOps /\ op.ch # 0

Mutators ==
    ValueOps \cup WithAllOps \cup
        {"enable_overcurrent_protection", "disable_overcurrent_protection",
         "enable_overvoltage_protection", "disable_overvoltage_protection"}

(* C15: no operation retries: within one invocation of a single-channel   *)
(* operation each mutation command is sent exactly once and each          *)
(* verification query at most once, whether the operation succeeds or     *)
(* fails; a failure is returned to the caller with nothing sent after it. *)
C15_NoRetry ==
    /\ [](SingleChannel =>
            /\ Len(Mutations(sent)) <= 1
            /\ Len(sent) - Len(Mutations(sent)) <= 1
            /\ Done =>
                Len(Mutations(sent)) = IF op.name \in Mutators THEN 1 ELSE 0)
    /\ [][Failed => sent' = sent \/ opsDone' = opsDone + 1]_vars

(* set_voltage(1, 5.000) read back 5.020 and failed after two sends. *)
C15_Witness ==
    /\ op = [name |-> "set_voltage", ch |-> 1, v |-> 5000]
    /\ result = "VerificationFailed"
    /\ ret = 5020
    /\ sent = <<Mut("VSET", 1, 5000), Query("VSET", 1)>>

ProtectionOps == {"set_overcurrent_protection", "set_overvoltage_protection"}

ProtectionWire ==
    IF op.name = "set_overcurrent_protection"
    THEN <<Mut("OCPSET", op.ch, op.v), Query("ISET", op.ch)>>
    ELSE <<Mut("OVPSET", op.ch, op.v), Query("VSET", op.ch)>>

(* C16 as stated: set_overcurrent_protection(c, x) sends OCPSET<c>, then  *)
(* queries the current setpoint of channel c, and fails exactly when that *)
(* setpoint is within 0.01 of x, succeeding otherwise;                    *)
(* set_overvoltage_protection likewise with OVPSET<c> and the voltage     *)
(* setpoint.                                                              *)
C16_FailsWithinTolerance ==
    (op.name \in ProtectionOps
        /\ result \in {"ok", "VerificationFailed"}) =>
        /\ sent = ProtectionWire
        /\ (result = "VerificationFailed" <=> Abs(op.v - ret) <= abs_tol)

(* C16 amended: the same two commands whenever the operation returns; a   *)
(* setpoint read back less than 0.01 from x fails the operation, one more *)
(* than 0.01 away lets it succeed, whatever threshold the device holds,   *)
(* and a reply that is no number fails it with a parse error.             *)
C16_SetpointCompared ==
    (op.name \in ProtectionOps /\ Done) =>
        /\ sent = ProtectionWire
        /\ result \in {"ok", "VerificationFailed", "ParseError"}
        /\ (result \in {"ok", "VerificationFailed"}
                /\ Abs(op.v - ret) < abs_tol
                => result = "VerificationFailed")
        /\ (result \in {"ok", "VerificationFailed"}
                /\ Abs(op.v - ret) > abs_tol
                => result = "ok")

(* The device took the threshold 5.005, and the operation failed because  *)
(* the current setpoint is 5.005 too.                                     *)
C16_Witness ==
    /\ op = [name |-> "set_overcurrent_protection", ch |-> 1, v |-> 5005]
    /\ result = "VerificationFailed"
    /\ faults = 0
    /\ dev.ocpset[1] = 5005
    /\ dev.iset[1] = 5005

FlagOps ==
    {"enable_overcurrent_protection", "disable_overcurrent_protection",
     "enable_overvoltage_protection", "disable_overvoltage_protection"}

FlagMn ==
    IF op.name \in {"enable_overcurrent_protection",
                    "disable_overcurrent_protection"}
    THEN "OCP" ELSE "OVP"

FlagWanted ==
    IF op.name \in {"enable_overcurrent_protection",
                    "enable_overvoltage_protection"}
    THEN 1 ELSE 0

(* C17: enable_/disable_overcurrent_protection(c) and                     *)
(* enable_/disable_overvoltage_protection(c) send the flag mutation for   *)
(* channel c, then the flag query for the same channel, and succeed iff   *)
(* the observed flag equals the requested boolean (enable iff the reply   *)
(* is a non-zero integer, disable iff it is zero); a reply that is no     *)
(* integer makes the operation fail.                                      *)
C17_FlagVerified ==
    /\ [](op.name \in FlagOps /\ Done =>
            /\ sent = <<Mut(FlagMn, op.ch, FlagWanted), Query(FlagMn, op.ch)>>
            /\ result \in {"ok", "VerificationFailed", "ParseError"}
            /\ result \in {"ok", "VerificationFailed"} =>
                    (result = "ok" <=> ret = FlagWanted))
    /\ [][op.name \in FlagOps /\ Running /\ Cur.t = "rflag" /\ rx # <<>> =>
            IF Head(rx).k = "flag"
            THEN ret' = (IF Head(rx).v # 0 THEN 1 ELSE 0) /\ result' = "run"
            ELSE result' = "ParseError"]_vars

(* The device never got OCP2:1: the flag read back is 0, and the enable   *)
(* fails.                                                                 *)
C17_Witness ==
    /\ op = [name |-> "enable_overcurrent_protection", ch |-> 2, v |-> 0]
    /\ result = "VerificationFailed"
    /\ ret = 0
    /\ ~dev.ocp[2]

InfoOp == op.name = "get_device_info"

(* C18: get_device_info sends exactly one query command and then consumes *)
(* exactly eight replies, assigning the k-th reply received to the k-th   *)
(* field in the order DHCP flag, IP, netmask, gateway, MAC, UDP port,     *)
(* baud rate, GPIB address, by position only: the label in a reply never  *)
(* chooses the field.                                                     *)
C18_DeviceInfoByPosition ==
    /\ [](InfoOp =>
            /\ IsPrefix(sent, <<Query("DEVINFO", NoCh)>>)
            /\ Running /\ Cur.t \in {"rstr", "info"} => Len(sent) = 1
            /\ Running /\ Cur.t = "rstr" /\ Cur.a > 1 => Len(ret) = Cur.a - 1
            /\ Running /\ Cur.t = "info" => Len(ret) = 8
            /\ Done => Len(sent) = 1)
    /\ [][InfoOp /\ Running /\ Cur.t = "rstr" /\ rx # <<>> =>
            /\ rx' = Tail(rx)
            /\ Len(ret') = Cur.a
            /\ ret'[Cur.a] = _convert_response(Head(rx))
            /\ \A j \in 1..(Cur.a - 1) : ret'[j] = ret[j]]_vars
    /\ [][InfoOp /\ Running /\ Cur.t = "info" =>
            /\ rx' = rx
            /\ sent' = sent
            /\ result' \in {"ok", "ParseError"}
            /\ result' = "ok" =>
                /\ ret'.system_dhcp = IntOf(_split_response(ret[1]))
                /\ ret'.system_ip_address = StrOf(_split_response(ret[2]))
                /\ ret'.system_netmask = StrOf(_split_response(ret[3]))
                /\ ret'.system_gateway = StrOf(_split_response(ret[4]))
                /\ ret'.system_mac_address = StrOf(_split_response(ret[5]))
                /\ ret'.system_udp_port = IntOf(_split_response(ret[6]))
                /\ ret'.system_baud_rate = IntOf(_split_response(ret[7]))
                /\ ret'.system_gpib_address =
                        IntOf(_split_response(ret[8]))]_vars

(* The burst came with the netmask second and the IP address third: the   *)
(* IP field holds 255.0.0.0 and the netmask field 10.0.0.2.               *)
C18_Witness ==
    /\ InfoOp
    /\ result = "ok"
    /\ rx = <<>>
    /\ ret.system_dhcp = 1
    /\ ret.system_ip_address = <<"2", "5", "5", ".", "0", ".", "0", ".", "0">>
    /\ ret.system_netmask = <<"1", "0", ".", "0", ".", "0", ".", "2">>
    /\ ret.system_udp_port = 18190

QueryOps ==
    {"get_device_info", "get_status", "get_voltage", "get_current",
     "get_voltage_setting", "get_current_setting",
     "get_overcurrent_protection_setting",
     "get_overvoltage_protection_setting", "get_ocp_status",
     "get_ovp_status", "get_settings"}

(* C20: query operations never change the device: every command sent by   *)
(* get_device_info, get_status, the getters and get_settings is a query   *)
(* (ends in '?'), and no step of such an operation, from its call to its  *)
(* return, changes the device's setpoints, thresholds, flags or outputs.  *)
C20_QueriesOnly ==
    /\ [](op.name \in QueryOps => \A i \in 1..Len(sent) : sent[i].q)
    /\ [][op'.name \in QueryOps => dev' = dev]_vars

(* get_settings returned after its 34 queries, the device as it was. *)
C20_Witness ==
    /\ op.name = "get_settings"
    /\ result = "ok"
    /\ Len(sent) = 34
    /\ dev \in InitDevs

(* The replies the operation has still to read at its current step: one   *)
(* for a getter, those of the burst from the a-th on for get_device_info. *)
Receiving == Running /\ Cur.t \in {"rnum", "rflag", "rstat", "rstr"}
Outstanding ==
    IF Cur.t = "rstr"
    THEN SubSeq(DevReplies(dev, Last(sent)), Cur.a, 8)
    ELSE DevReplies(dev, Last(sent))

(* C19: the transport delivering every datagram once and in order, and    *)
(* the device sending one reply per query (eight for the device-info      *)
(* query) and none per mutation: whenever an operation has returned,      *)
(* failed with a parse, malformed-status or verification error or not, no *)
(* unread reply is queued; so the replies a query reads are those to its  *)
(* own command (in number always, and in content when no reply was        *)
(* garbled).                                                              *)
C19_NoStaleReply ==
    /\ result # "run" => rx = <<>>
    /\ Receiving /\ rx # <<>> =>
        /\ sent # <<>>
        /\ Last(sent).q
        /\ Len(rx) = Len(Outstanding)
        /\ faults = 0 => rx = Outstanding

(* A second operation, get_voltage(1), about to read the reply to its own *)
(* VOUT1?, after set_overcurrent_protection(1, 5.005) had failed          *)
(* verification (the threshold 5.005 is in the device, the current        *)
(* setpoint is 5.005, and no fault occurred).                             *)
C19_Witness ==
    /\ opsDone = 2
    /\ faults = 0
    /\ dev.ocpset[1] = 5005
    /\ dev.iset[1] = 5005
    /\ op.name = "get_voltage"
    /\ Receiving
    /\ rx = <<Num(5000)>>

====
